---- MODULE Spec2Model ----
(***************************************************************************)
(* Model of job_scraper.py (Job Market Signal Detector, v6 "Wide Net").    *)
(*                                                                         *)
(* The script is one sequential run: a nested loop over the query catalog  *)
(* calling the listing adapter (scrape_jobs), then, when anything was      *)
(* collected, concat -> date filter -> international firewall -> noise     *)
(* filter -> "California or remote" rule -> projection -> sort -> CSV.     *)
(*                                                                         *)
(* Strings are sequences of one-character strings so that substring        *)
(* matching and lower-casing are computed, not assumed.                    *)
(***************************************************************************)
EXTENDS Integers, Sequences, FiniteSets, TLC

VARIABLES pc, i, j, calls, nraised, returned, all_jobs, master_df, csv, message

vars == <<pc, i, j, calls, nraised, returned, all_jobs, master_df, csv, message>>

(***************************************************************************)
(* Bounds of the model.                                                    *)
(***************************************************************************)
\* total number of records the adapter hands back over one whole scan
MaxJobs == 2
\* number of rows of an aggregated result set the filter pipeline is run on
MaxRows == 2
\* the calendar day (as a day number) and the hour at which the run happens
Today == 20
NowHour == 12

(***************************************************************************)
(* Character strings.                                                      *)
(***************************************************************************)
UpperChars == <<"A","B","C","D","E","F","G","H","I","J","K","L","M",
                "N","O","P","Q","R","S","T","U","V","W","X","Y","Z">>
LowerChars == <<"a","b","c","d","e","f","g","h","i","j","k","l","m",
                "n","o","p","q","r","s","t","u","v","w","x","y","z">>

\* every character a cell may hold (NaN marks a missing cell)
Chars ==
  {UpperChars[k] : k \in 1..26} \cup {LowerChars[k] : k \in 1..26}
    \cup {" ", ",", "NaN"}

\* str.lower() on one character
LowerMap ==
  [c \in Chars |->
     IF \E k \in 1..26 : UpperChars[k] = c
     THEN LowerChars[CHOOSE k \in 1..26 : UpperChars[k] = c]
     ELSE c]
LowerChar(c) == LowerMap[c]

\* str.lower()
Lower(s) == [k \in 1..Len(s) |-> LowerChar(s[k])]

\* Python's `sub in s`
Contains(sub, s) ==
  \E k \in 0..(Len(s) - Len(sub)) : SubSeq(s, k + 1, k + Len(sub)) = sub

\* a missing (NaN) string cell; str() of it is the text "nan"
NaN == <<"NaN">>
IsNa(s) == s = NaN
StrOf(s) == IF IsNa(s) THEN <<"n","a","n">> ELSE s

(***************************************************************************)
(* Configuration.                                                          *)
(***************************************************************************)
target_locations == <<"San Francisco Bay Area, CA", "Remote">>

searches ==
  <<"General_Tech_DS", "Geospatial_Tech", "Climate_Risk_Modeling",
    "Environmental_Consulting", "Carbon_MRV_ClimateTech", "Quant_Energy_Trading">>

forbidden_locs ==
  << <<"I","n","d","i","a">>,
     <<"U","K">>,
     <<"U","n","i","t","e","d"," ","K","i","n","g","d","o","m">>,
     <<"L","o","n","d","o","n">>,
     <<"G","e","r","m","a","n","y">>,
     <<"F","r","a","n","c","e">>,
     <<"I","t","a","l","y">>,
     <<"C","h","i","n","a">>,
     <<"A","u","s","t","r","a","l","i","a">>,
     <<"C","a","n","a","d","a">>,
     <<"E","u","r","o","p","e">> >>

forbidden_titles ==
  << <<"S","a","l","e","s">>,
     <<"A","c","c","o","u","n","t"," ","E","x","e","c","u","t","i","v","e">>,
     <<"R","e","c","r","u","i","t","e","r">>,
     <<"M","a","r","k","e","t","i","n","g"," ","M","a","n","a","g","e","r">>,
     <<"N","u","r","s","e">>,
     <<"D","r","i","v","e","r">>,
     <<"T","e","c","h","n","i","c","i","a","n">>,
     <<"I","n","t","e","r","n">>,
     <<"U","n","p","a","i","d">>,
     <<"V","o","l","u","n","t","e","e","r">>,
     <<"S","e","n","i","o","r"," ","D","i","r","e","c","t","o","r">>,
     <<"V","P"," ","o","f">>,
     <<"H","e","a","d"," ","o","f">> >>

\* timedelta(days=7)
WindowDays == 7

(***************************************************************************)
(* Catalog traversal: searches outer, locations inner.                     *)
(***************************************************************************)
NSearches == Len(searches)
NLocations == Len(target_locations)

\* the (search, location) pairs in the order the nested for loops visit them
Traversal ==
  [k \in 1..(NSearches * NLocations) |->
     [s |-> ((k - 1) \div NLocations) + 1, l |-> ((k - 1) % NLocations) + 1]]

\* the loop is at its last pair
LastPair == i = NSearches /\ j = NLocations

(***************************************************************************)
(* Dates.  A date_posted cell is null, an unparseable text, or a point in  *)
(* time (day d, hour h); `.dt.date` keeps the day only.                    *)
(***************************************************************************)
NullDate == [kind |-> "null", d |-> 0, h |-> 0]
BadDate == [kind |-> "bad", d |-> 0, h |-> 0]
Stamp(d, h) == [kind |-> "ts", d |-> d, h |-> h]

\* pd.to_datetime(x).dt.date of one parseable cell
to_date(dp) == [kind |-> "date", d |-> dp.d, h |-> 0]

\* (datetime.now() - timedelta(days=7)).date(), as a day number
cutoff_date_wide == (((Today * 24) + NowHour) - ((WindowDays + 1) * 24)) \div 24
cutoff_date == (((Today * 24) + NowHour) - (WindowDays * 24)) \div 24

(***************************************************************************)
(* Frames: the value of master_df after a stage, or the fact that the      *)
(* stage raised.                                                           *)
(***************************************************************************)
Frame(rows) == [ok |-> TRUE, rows |-> rows]
Raised == [ok |-> FALSE, rows |-> <<>>]

\* pd.concat(all_jobs, ignore_index=True)
RECURSIVE Concat(_)
Concat(batches) ==
  IF batches = <<>> THEN <<>> ELSE Head(batches) \o Concat(Tail(batches))

\* jobs['Category'] = search['name']; jobs['Search_Location'] = loc
StampBatch(batch, s, l) ==
  [k \in 1..Len(batch) |->
     [title |-> batch[k].title, location |-> batch[k].location,
      is_remote |-> batch[k].is_remote, date_posted |-> batch[k].date_posted,
      Category |-> searches[s], Search_Location |-> target_locations[l]]]

(***************************************************************************)
(* Stage 1: strict date filter.                                            *)
(***************************************************************************)
HasDate(r) == r.date_posted.kind # "null"
\* master_df.dropna(subset=['date_posted'])
dropna(rows) == SelectSeq(rows, HasDate)

\* pd.to_datetime raises on a cell it cannot parse
Parseable(rows) == \A k \in 1..Len(rows) : rows[k].date_posted.kind # "bad"

OnOrAfterCutoff(r) == r.date_posted.d >= cutoff_date

strict_date_filter(rows) ==
  LET kept == dropna(rows)
      dated == [k \in 1..Len(kept) |->
                  [kept[k] EXCEPT !.date_posted = to_date(@)]]
  IN IF Parseable(kept) THEN Frame(SelectSeq(dated, OnOrAfterCutoff)) ELSE Raised

(***************************************************************************)
(* Stage 2: international firewall.                                        *)
(***************************************************************************)
\* str.contains(loc_pattern, case=True, na=False)
loc_match_case_sensitive(loc) ==
  /\ ~IsNa(loc)
  /\ \E p \in 1..Len(forbidden_locs) : Contains(forbidden_locs[p], loc)

\* the pattern as the case-insensitive match sees it
loc_pattern_folded == [p \in 1..Len(forbidden_locs) |-> Lower(forbidden_locs[p])]

\* str.contains(loc_pattern, case=False, na=False)
loc_match(loc) ==
  /\ ~IsNa(loc)
  /\ LET folded == Lower(loc)
     IN \E p \in 1..Len(forbidden_locs) : Contains(loc_pattern_folded[p], folded)

NotForbiddenLoc(r) == ~loc_match(r.location)
international_firewall(rows) == Frame(SelectSeq(rows, NotForbiddenLoc))

(***************************************************************************)
(* Stage 3: noise filter (forbidden titles).                               *)
(***************************************************************************)
\* str.contains(title_pattern, case=True, na=False)
title_match_case_sensitive(title) ==
  /\ ~IsNa(title)
  /\ \E p \in 1..Len(forbidden_titles) : Contains(forbidden_titles[p], title)

\* the pattern as the case-insensitive match sees it
title_pattern_folded ==
  [p \in 1..Len(forbidden_titles) |-> Lower(forbidden_titles[p])]

\* str.contains(title_pattern, case=False, na=False)
title_match(title) ==
  /\ ~IsNa(title)
  /\ LET folded == Lower(title)
     IN \E p \in 1..Len(forbidden_titles) :
           Contains(title_pattern_folded[p], folded)

NotForbiddenTitle(r) == ~title_match(r.title)
noise_filter(rows) == Frame(SelectSeq(rows, NotForbiddenTitle))

(***************************************************************************)
(* Stage 4: the "California or remote" rule.                               *)
(***************************************************************************)
is_valid_location(row) ==
  LET loc == Lower(StrOf(row.location))
  IN \/ Contains(<<"c","a">>, loc)
     \/ Contains(<<"c","a","l","i","f","o","r","n","i","a">>, loc)
     \/ Contains(<<"s","a","n"," ","f","r","a","n","c","i","s","c","o">>, loc)
     \/ Contains(<<"o","a","k","l","a","n","d">>, loc)
     \/ Contains(<<"s","a","n"," ","j","o","s","e">>, loc)
     \/ row.is_remote = "true"
     \/ Contains(<<"r","e","m","o","t","e">>, loc)

california_or_remote(rows) == Frame(SelectSeq(rows, is_valid_location))

(***************************************************************************)
(* Stage 5: projection and sort.                                           *)
(***************************************************************************)
\* master_df[available_columns]: Search_Location is not a desired column
Project(rows) ==
  [k \in 1..Len(rows) |->
     [title |-> rows[k].title, location |-> rows[k].location,
      is_remote |-> rows[k].is_remote, date_posted |-> rows[k].date_posted,
      Category |-> rows[k].Category]]

Perms(n) == {p \in [1..n -> 1..n] : \A a, b \in 1..n : p[a] = p[b] => a = b}

Descending(rows) ==
  \A a, b \in 1..Len(rows) : a < b => rows[a].date_posted.d >= rows[b].date_posted.d

\* sort_values(by='date_posted', ascending=False) with the default
\* kind='quicksort', which pandas documents as not stable: every ordering of
\* the rows that is descending by date is a possible outcome
sort_values(rows) ==
  {s \in {[k \in 1..Len(rows) |-> rows[p[k]]] : p \in Perms(Len(rows))} :
     Descending(s)}

(***************************************************************************)
(* Listing records the adapter may hand back.                              *)
(***************************************************************************)
DataScientist == <<"D","a","t","a"," ","S","c","i","e","n","t","i","s","t">>
SalesIntern == <<"s","a","l","e","s"," ","i","n","t","e","r","n">>
AccountExecutive ==
  <<"A","c","c","o","u","n","t"," ","E","x","e","c","u","t","i","v","e">>

OaklandCA == <<"O","a","k","l","a","n","d",","," ","C","A">>
LondonUK == <<"L","o","n","d","o","n",","," ","U","K">>
RemoteLoc == <<"R","e","m","o","t","e">>
NewYorkNY == <<"N","e","w"," ","Y","o","r","k",","," ","N","Y">>
ChicagoIL == <<"C","h","i","c","a","g","o",","," ","I","L">>
RemoteCanada == <<"r","e","m","o","t","e",","," ","c","a","n","a","d","a">>

Rec(t, l, r, d) == [title |-> t, location |-> l, is_remote |-> r, date_posted |-> d]

PostedToday == Stamp(Today, 9)
PostedAtCutoff == Stamp(Today - WindowDays, 0)
PostedTooOld == Stamp(Today - WindowDays - 1, 23)

\* records the filter pipeline is exercised on
Records ==
  { Rec(DataScientist, OaklandCA, "none", PostedToday),
    Rec(DataScientist, RemoteLoc, "true", PostedToday),
    Rec(DataScientist, NewYorkNY, "false", PostedToday),
    Rec(DataScientist, NewYorkNY, "true", PostedToday),
    Rec(DataScientist, NewYorkNY, "none", PostedToday),
    Rec(DataScientist, ChicagoIL, "false", PostedToday),
    Rec(DataScientist, RemoteCanada, "true", PostedToday),
    Rec(DataScientist, LondonUK, "false", PostedToday),
    Rec(DataScientist, NaN, "none", PostedToday),
    Rec(SalesIntern, OaklandCA, "none", PostedToday),
    Rec(AccountExecutive, OaklandCA, "none", PostedToday),
    Rec(DataScientist, OaklandCA, "none", NullDate),
    Rec(DataScientist, OaklandCA, "none", BadDate),
    Rec(DataScientist, OaklandCA, "none", PostedTooOld),
    Rec(DataScientist, OaklandCA, "none", PostedAtCutoff),
    Rec(DataScientist, RemoteLoc, "true", PostedAtCutoff),
    Rec(DataScientist, LondonUK, "false", BadDate) }

\* records the adapter returns during the scrape loop
LoopRecords ==
  { Rec(DataScientist, OaklandCA, "none", PostedToday),
    Rec(AccountExecutive, OaklandCA, "none", PostedToday) }

\* the non-empty sequences over S of length at most n
SeqsUpTo(S, n) == UNION {[1..m -> S] : m \in 1..n}

(***************************************************************************)
(* The scrape loop.                                                        *)
(***************************************************************************)
Collected == Len(Concat(all_jobs))

\* the nested for loops move to the next pair, or fall out of the loop
Advance ==
  /\ i' = IF j = NLocations THEN i + 1 ELSE i
  /\ j' = IF j = NLocations THEN 1 ELSE j + 1
  /\ pc' = IF LastPair THEN "clean" ELSE "scrape"

\* scrape_jobs raises, and the run stops there
ScrapeRaisesAborts ==
  /\ pc = "scrape"
  /\ calls' = Append(calls, [s |-> i, l |-> j])
  /\ nraised' = nraised + 1
  /\ pc' = "done"
  /\ message' = "error"
  /\ UNCHANGED <<i, j, returned, all_jobs, master_df, csv>>

\* scrape_jobs raises, and the same pair is queried again
ScrapeRaisesRetries ==
  /\ pc = "scrape"
  /\ calls' = Append(calls, [s |-> i, l |-> j])
  /\ nraised' = nraised + 1
  /\ UNCHANGED <<pc, i, j, returned, all_jobs, master_df, csv, message>>

\* scrape_jobs raises: the except clause prints and the loop goes on
ScrapeRaises ==
  /\ pc = "scrape"
  /\ calls' = Append(calls, [s |-> i, l |-> j])
  /\ nraised' = nraised + 1
  /\ Advance
  /\ UNCHANGED <<returned, all_jobs, master_df, csv, message>>

\* scrape_jobs returns an empty frame
ScrapeEmpty ==
  /\ pc = "scrape"
  /\ calls' = Append(calls, [s |-> i, l |-> j])
  /\ Advance
  /\ UNCHANGED <<nraised, returned, all_jobs, master_df, csv, message>>

\* scrape_jobs returns a non-empty frame
ScrapeReturns(jobs) ==
  /\ pc = "scrape"
  /\ calls' = Append(calls, [s |-> i, l |-> j])
  /\ returned' = Append(returned, [call |-> Len(calls) + 1, jobs |-> jobs])
  /\ all_jobs' = Append(all_jobs, StampBatch(jobs, i, j))
  /\ Advance
  /\ UNCHANGED <<nraised, master_df, csv, message>>

(***************************************************************************)
(* Data cleaning and export.                                               *)
(***************************************************************************)
\* if all_jobs: pd.concat(...)  else: "No new listings found"
ConcatOrReport ==
  /\ pc = "clean"
  /\ IF all_jobs # <<>>
     THEN /\ master_df' = Concat(all_jobs)
          /\ pc' = "date"
          /\ UNCHANGED message
     ELSE /\ message' = "no_listings"
          /\ pc' = "done"
          /\ UNCHANGED master_df
  /\ UNCHANGED <<i, j, calls, nraised, returned, all_jobs, csv>>

\* stage 1; an exception of pd.to_datetime is not caught and ends the run
StrictDateFilter ==
  /\ pc = "date"
  /\ LET f == strict_date_filter(master_df)
     IN IF f.ok
        THEN /\ master_df' = f.rows
             /\ pc' = "geo"
             /\ UNCHANGED message
        ELSE /\ message' = "error"
             /\ pc' = "done"
             /\ UNCHANGED master_df
  /\ UNCHANGED <<i, j, calls, nraised, returned, all_jobs, csv>>

InternationalFirewall ==
  /\ pc = "geo"
  /\ master_df' = international_firewall(master_df).rows
  /\ pc' = "title"
  /\ UNCHANGED <<i, j, calls, nraised, returned, all_jobs, csv, message>>

NoiseFilter ==
  /\ pc = "title"
  /\ master_df' = noise_filter(master_df).rows
  /\ pc' = "admit"
  /\ UNCHANGED <<i, j, calls, nraised, returned, all_jobs, csv, message>>

CaliforniaOrRemoteRule ==
  /\ pc = "admit"
  /\ master_df' = california_or_remote(master_df).rows
  /\ pc' = "export"
  /\ UNCHANGED <<i, j, calls, nraised, returned, all_jobs, csv, message>>

\* projection, sort, to_csv and the "Pipeline complete" line
SortAndExport ==
  /\ pc = "export"
  /\ \E s \in sort_values(Project(master_df)) :
        csv' = [written |-> TRUE, rows |-> s]
  /\ message' = "complete"
  /\ pc' = "done"
  /\ UNCHANGED <<i, j, calls, nraised, returned, all_jobs, master_df>>

(***************************************************************************)
(* The whole run.                                                          *)
(***************************************************************************)
Init ==
  /\ pc = "scrape"
  /\ i = 1
  /\ j = 1
  /\ calls = <<>>
  /\ nraised = 0
  /\ returned = <<>>
  /\ all_jobs = <<>>
  /\ master_df = <<>>
  /\ csv = [written |-> FALSE, rows |-> <<>>]
  /\ message = "none"

Next ==
  \/ ScrapeRaises
  \/ ScrapeEmpty
  \/ \E jobs \in SeqsUpTo(LoopRecords, MaxJobs - Collected) : ScrapeReturns(jobs)
  \/ ConcatOrReport
  \/ StrictDateFilter
  \/ InternationalFirewall
  \/ NoiseFilter
  \/ CaliforniaOrRemoteRule
  \/ SortAndExport

Spec == Init /\ [][Next]_vars

(***************************************************************************)
(* The cleaning pipeline alone, started from the state the loop leaves     *)
(* when the first pair (and, for two batches, the last pair) returned rows *)
(* and every other call returned nothing.                                  *)
(***************************************************************************)
NPairs == NSearches * NLocations

\* the raw batches: nothing, one batch, or a first row and the rest
RawBatches ==
  {<<>>}
  \cup {<<[call |-> 1, jobs |-> rows]>> : rows \in SeqsUpTo(Records, MaxRows)}
  \cup {<<[call |-> 1, jobs |-> <<Head(rows)>>],
          [call |-> NPairs, jobs |-> Tail(rows)]>> :
          rows \in {r \in SeqsUpTo(Records, MaxRows) : Len(r) >= 2}}

PipeInit ==
  /\ pc = "clean"
  /\ i = NSearches + 1
  /\ j = 1
  /\ calls = Traversal
  /\ nraised = 0
  /\ returned \in RawBatches
  /\ all_jobs = [k \in 1..Len(returned) |->
                   StampBatch(returned[k].jobs, Traversal[returned[k].call].s,
                              Traversal[returned[k].call].l)]
  /\ master_df = <<>>
  /\ csv = [written |-> FALSE, rows |-> <<>>]
  /\ message = "none"

PipeNext ==
  \/ ConcatOrReport
  \/ StrictDateFilter
  \/ InternationalFirewall
  \/ NoiseFilter
  \/ CaliforniaOrRemoteRule
  \/ SortAndExport

PipeSpec == PipeInit /\ [][PipeNext]_vars

(***************************************************************************)
(* Properties.                                                             *)
(***************************************************************************)
\* the aggregated result set: what pd.concat hands to the filter pipeline
Aggregated == Concat(all_jobs)

\* the run ended by writing the CSV
Exported == pc = "done" /\ csv.written

\* the record the aggregator is expected to hold for raw record r of call c
Stamped(r, c) ==
  [title |-> r.title, location |-> r.location, is_remote |-> r.is_remote,
   date_posted |-> r.date_posted,
   Category |-> searches[Traversal[c].s],
   Search_Location |-> target_locations[Traversal[c].l]]

\* C1: failure isolation in the scrape loop.  Whatever calls raised, the
\* loop visits every pair of the catalog, every record returned by a
\* non-raising non-empty call is in the aggregated result set, and that set
\* is what the filter pipeline starts from; no raising call ends the run
\* (a run ends in an error only over an unparseable date, see C7).
C1_FailureIsolation ==
  /\ pc # "scrape" => Len(calls) = NPairs
  /\ message = "error" => \E m \in 1..Len(Aggregated) :
                              Aggregated[m].date_posted.kind = "bad"
  /\ \A k \in 1..Len(returned) : \A n \in 1..Len(returned[k].jobs) :
        \E m \in 1..Len(Aggregated) :
           Aggregated[m] = Stamped(returned[k].jobs[n], returned[k].call)
  /\ pc = "date" => master_df = Aggregated

\* a scan in which calls raised and other calls returned records has reached
\* the filter pipeline
C1_Witness ==
  /\ pc = "date"
  /\ nraised >= 2
  /\ Len(returned) >= 1
  /\ returned[1].call > 1

\* C9: the adapter is invoked exactly once per pair, in traversal order
\* (searches outer, locations inner), never again after a failure; the
\* aggregated set is the concatenation, in that order and without
\* deduplication, of exactly the non-empty successful batches, each record
\* stamped with the category and search location of its pair.
C9_OncePerPairInOrder ==
  /\ Len(calls) <= NPairs
  /\ calls = SubSeq(Traversal, 1, Len(calls))
  /\ pc # "scrape" => calls = Traversal
  /\ Len(all_jobs) = Len(returned)
  /\ nraised + Len(returned) <= Len(calls)
  /\ \A k \in 1..Len(returned) :
        /\ returned[k].call \in 1..Len(calls)
        /\ k > 1 => returned[k - 1].call < returned[k].call
        /\ all_jobs[k] = [n \in 1..Len(returned[k].jobs) |->
                            Stamped(returned[k].jobs[n], returned[k].call)]
  /\ pc = "date" => master_df = Concat(all_jobs)

\* the loop is over after a raising call, an empty call and two successful
\* calls, one of which returned the same record twice over the scan
C9_Witness ==
  /\ pc = "clean"
  /\ nraised >= 1
  /\ Len(returned) = 2
  /\ nraised + Len(returned) < Len(calls)
  /\ returned[1].jobs = returned[2].jobs

\* a cell's text holds one of the patterns, letter case ignored
HoldsAnyOf(patterns, text) ==
  \E p \in 1..Len(patterns) : Contains(Lower(patterns[p]), Lower(text))

\* C2: every exported record has a non-null date_posted on or after
\* today - 7 days; null-dated and older records are never exported.
C2_ExportedAreFresh ==
  Exported =>
    /\ \A k \in 1..Len(csv.rows) :
          /\ csv.rows[k].date_posted.kind = "date"
          /\ csv.rows[k].date_posted.d >= Today - WindowDays
    /\ Len(csv.rows) <=
          Cardinality({m \in 1..Len(Aggregated) :
                          /\ Aggregated[m].date_posted.kind = "ts"
                          /\ Aggregated[m].date_posted.d >= Today - WindowDays})

\* a record posted exactly at the cutoff is exported while a record one day
\* older, or a null-dated one, of the same result set is not
C2_Witness ==
  /\ Exported
  /\ Len(csv.rows) = 1
  /\ csv.rows[1].date_posted.d = Today - WindowDays
  /\ \E m \in 1..Len(Aggregated) :
        \/ Aggregated[m].date_posted = NullDate
        \/ Aggregated[m].date_posted = PostedTooOld

\* C3: no exported record's location holds a forbidden-location substring,
\* letter case ignored; the exclusion wins over the admission rule.
C3_NoForbiddenLocation ==
  Exported =>
    \A k \in 1..Len(csv.rows) : ~HoldsAnyOf(forbidden_locs, csv.rows[k].location)

\* a fresh record that is remote by flag and by text, and holds "ca", but
\* names Canada, was aggregated next to a record that is exported
C3_Witness ==
  /\ Exported
  /\ Len(csv.rows) = 1
  /\ \E m \in 1..Len(Aggregated) :
        /\ Aggregated[m].location = RemoteCanada
        /\ Aggregated[m].is_remote = "true"
        /\ Aggregated[m].date_posted = PostedToday

\* C4: no exported record's title holds a forbidden-title substring, letter
\* case ignored.
C4_NoForbiddenTitle ==
  Exported =>
    \A k \in 1..Len(csv.rows) : ~HoldsAnyOf(forbidden_titles, csv.rows[k].title)

\* a fresh California record with a lower-case forbidden title was aggregated
\* next to a record that is exported
C4_Witness ==
  /\ Exported
  /\ Len(csv.rows) = 1
  /\ \E m \in 1..Len(Aggregated) :
        /\ Aggregated[m].title = SalesIntern
        /\ Aggregated[m].location = OaklandCA
        /\ Aggregated[m].date_posted = PostedToday

(***************************************************************************)
(* The location-admission rule as the specification words it.              *)
(***************************************************************************)
IsLetter(c) == \E k \in 1..26 : LowerChars[k] = c \/ UpperChars[k] = c

\* the state abbreviation stands as a word of its own in the text
HoldsWord(word, text) ==
  \E k \in 0..(Len(text) - Len(word)) :
     /\ SubSeq(text, k + 1, k + Len(word)) = word
     /\ k = 0 \/ ~IsLetter(text[k])
     /\ k + Len(word) = Len(text) \/ ~IsLetter(text[k + Len(word) + 1])

\* the location names California: the state abbreviation or name, or a
\* named Bay Area city
LocatedInCalifornia(location) ==
  LET loc == Lower(StrOf(location))
  IN \/ HoldsWord(<<"c","a">>, loc)
     \/ Contains(<<"c","a","l","i","f","o","r","n","i","a">>, loc)
     \/ Contains(<<"s","a","n"," ","f","r","a","n","c","i","s","c","o">>, loc)
     \/ Contains(<<"o","a","k","l","a","n","d">>, loc)
     \/ Contains(<<"s","a","n"," ","j","o","s","e">>, loc)

CaliforniaOrRemote(r) ==
  \/ LocatedInCalifornia(r.location)
  \/ r.is_remote = "true"
  \/ Contains(<<"r","e","m","o","t","e">>, Lower(StrOf(r.location)))

\* the rows that passed the recency, geography and title stages
PassedThreeStages ==
  noise_filter(international_firewall(strict_date_filter(Aggregated).rows).rows).rows

\* C5: a record that passed the first three stages survives the fourth if
\* and only if it is located in California or is remote (by flag or by
\* text); every record outside California that is not remote is dropped.
C5_AdmissionRule ==
  pc = "export" => master_df = SelectSeq(PassedThreeStages, CaliforniaOrRemote)

(***************************************************************************)
(* The stable descending sort.                                             *)
(***************************************************************************)
\* rows reordered by p is descending by date, ties in their original order
StableOrder(rows, p) ==
  \A a, b \in 1..Len(rows) :
     a < b =>
       \/ rows[p[a]].date_posted.d > rows[p[b]].date_posted.d
       \/ /\ rows[p[a]].date_posted.d = rows[p[b]].date_posted.d
          /\ p[a] < p[b]

\* C6: the exported rows are ordered by date_posted descending, and two
\* rows with equal dates keep the relative order they had in the aggregated
\* result set.
C6_SortedStable ==
  Exported =>
    /\ Descending(csv.rows)
    /\ \E p \in Perms(Len(master_df)) :
          /\ StableOrder(master_df, p)
          /\ csv.rows = [k \in 1..Len(master_df) |-> Project(master_df)[p[k]]]

(***************************************************************************)
(* Unparseable dates and empty outcomes.                                   *)
(***************************************************************************)
\* a row of the aggregated set that passes every filter
PassesAll(r) ==
  /\ r.date_posted.kind = "ts"
  /\ r.date_posted.d >= Today - WindowDays
  /\ ~loc_match(r.location)
  /\ ~title_match(r.title)
  /\ is_valid_location(r)

\* C7: a record whose date_posted is present but unparseable is dropped by
\* the recency stage; the stage does not raise, the run goes on, and every
\* other record that passes all filters is exported.
C7_UnparseableDropped ==
  (pc = "done" /\ all_jobs # <<>>) =>
    /\ message # "error"
    /\ csv.written
    /\ \A m \in 1..Len(Aggregated) :
          PassesAll(Aggregated[m]) =>
            \E k \in 1..Len(csv.rows) :
               /\ csv.rows[k].title = Aggregated[m].title
               /\ csv.rows[k].location = Aggregated[m].location
               /\ csv.rows[k].is_remote = Aggregated[m].is_remote
               /\ csv.rows[k].Category = Aggregated[m].Category

\* C8: whenever no record survives, the run reports "no listings found",
\* the file is empty or absent, and no error is raised; both when nothing
\* was collected and when the filters dropped everything.
C8_NoListingsReported ==
  (pc = "done" /\ csv.rows = <<>>) => message = "no_listings"

(***************************************************************************)
(* Stage order.                                                            *)
(***************************************************************************)
ApplyStage(n, frame) ==
  IF ~frame.ok THEN frame
  ELSE CASE n = 1 -> strict_date_filter(frame.rows)
         [] n = 2 -> international_firewall(frame.rows)
         [] n = 3 -> noise_filter(frame.rows)
         [] n = 4 -> california_or_remote(frame.rows)

\* the four stages applied in the order o[1], o[2], o[3], o[4]
RunStages(o, rows) ==
  ApplyStage(o[4], ApplyStage(o[3], ApplyStage(o[2], ApplyStage(o[1], Frame(rows)))))

StageOrders == Perms(4)

\* the set of rows of a frame, dates read as calendar days
RowSet(rows) ==
  {[rows[k] EXCEPT !.date_posted = to_date(@)] : k \in 1..Len(rows)}

RECURSIVE IsSubSeq(_, _)
IsSubSeq(s, t) ==
  IF s = <<>> THEN TRUE
  ELSE IF t = <<>> THEN FALSE
  ELSE IF Head(s) = Head(t) THEN IsSubSeq(Tail(s), Tail(t))
  ELSE IsSubSeq(s, Tail(t))

\* what the run made of the four stages: the survivors, or an exception
CodeOutcome ==
  IF message = "error" THEN Raised ELSE Frame(master_df)

\* C10: the four stages are independent row predicates: applied in any
\* order they leave the same survivors as in the order of the code, and the
\* survivors are a sub-sequence of the aggregated records, none added,
\* duplicated or altered.
C10_OrderIndependent ==
  ((pc = "export") \/ (pc = "done" /\ all_jobs # <<>>)) =>
    /\ \A o \in StageOrders :
          /\ RunStages(o, Aggregated).ok = CodeOutcome.ok
          /\ RowSet(RunStages(o, Aggregated).rows) = RowSet(CodeOutcome.rows)
    /\ CodeOutcome.ok =>
          IsSubSeq(master_df,
                   [k \in 1..Len(Aggregated) |->
                      [Aggregated[k] EXCEPT !.date_posted = to_date(@)]])

====
